---- MODULE Spec2Model ----
(***************************************************************************)
(* A model of src/python/cueBeamCore.py: the CueBeamSolver class, its      *)
(* nested TxElement and RxPlane classes, and the beamsim field solver.     *)
(*                                                                         *)
(* Python objects live in three heaps (lists, planes, arrays) and are      *)
(* named by integer ids, so that two names bound to one object (the class  *)
(* attributes CueBeamSolver.elements and CueBeamSolver.rxPlane, which      *)
(* every instance without an attribute of its own resolves to) are one     *)
(* heap cell.  An object nothing refers to any more is dropped from its    *)
(* heap, as CPython's reference counting does.                             *)
(*                                                                         *)
(* Lengths are integers in units of 0.1 mm; the floats of the source that  *)
(* the model uses (positions, spacings) are whole multiples of it, so      *)
(* their sums and differences are exact.  The transcendental part of the   *)
(* arithmetic is kept symbolic: the contribution                           *)
(*     cos(-k*sqrt(d2) + phase) * amplitude / (2 * 3.14159 * sqrt(d2))     *)
(* is the record [fn, wavenumber, d2, phase, amplitude], two contributions *)
(* being equal only when their arguments are, and a running sum            *)
(* (pressure_re += ...) is the bag of its summands: float addition is      *)
(* commutative, and 0.0 + c is c.  The model takes it as associative too,  *)
(* which the floats are not from three summands on; no property below      *)
(* compares two sums of three or more summands taken in different orders.  *)
(*                                                                         *)
(* numpy.complex is the alias of the builtin complex it was when the file  *)
(* was written (numpy < 1.24); on a later numpy the module does not        *)
(* import at all.                                                          *)
(***************************************************************************)
EXTENDS Integers, Sequences, FiniteSets, Bags, TLC

VARIABLES
    lists,      \* heap of list objects: id -> sequence of TxElement
    planes,     \* heap of RxPlane objects: id -> instance attributes
    arrays,     \* heap of numpy arrays: id -> [shape, data]
    solvers,    \* solver name -> instance attributes (name -> value or id)
    reader,     \* the arrays a renderer got from rxPlane.pressurefield (ids)
    last,       \* the last operation: what, on which solver, how it ended
    nops        \* operations performed so far

vars == <<lists, planes, arrays, solvers, reader, last, nops>>

----------------------------------------------------------------------------
(* Bounds of the model.                                                    *)

MaxOps == 3     \* operations in one behaviour of Spec
MaxDim == 2     \* largest ny, nz of a grid the solver is run on
MaxTx  == 2     \* longest transmitter list a caller builds

----------------------------------------------------------------------------
(* Values.                                                                 *)

Min(S) == CHOOSE i \in S : \A j \in S : i <= j

FreshId(heap) == Min((0..Cardinality(DOMAIN heap)) \ DOMAIN heap)

Restrict(f, S) == [i \in (DOMAIN f) \cap S |-> f[i]]

TxElement(x, y, z, amplitude, phase) ==
    [x |-> x, y |-> y, z |-> z, amplitude |-> amplitude, phase |-> phase]

\* complex(0): what numpy.zeros(.., numpy.complex) fills an array with
CZero == [re |-> EmptyBag, im |-> EmptyBag]

\* pressure_re + 1.0j * pressure_im
Complex(re, im) == [re |-> re, im |-> im]

\* the sum of two complex numbers
CAdd(a, b) == [re |-> a.re (+) b.re, im |-> a.im (+) b.im]

\* numpy.zeros((ny, nz), numpy.complex): the shape, and the cells that are
\* not zero (none)
Zeros(ny, nz) == [shape |-> <<ny, nz>>, data |-> << >>]

\* arr[(iy, iz)]
GetItem(arr, iy, iz) ==
    IF <<iy, iz>> \in DOMAIN arr.data THEN arr.data[<<iy, iz>>] ELSE CZero

InBounds(arr, iy, iz) ==
    /\ 0 <= iy /\ iy < arr.shape[1]
    /\ 0 <= iz /\ iz < arr.shape[2]

\* arr[(iy, iz)] += v
SetItemAdding(arr, iy, iz, v) ==
    [arr EXCEPT !.data = (<<iy, iz>> :> CAdd(GetItem(arr, iy, iz), v)) @@ arr.data]

\* arr[(iy, iz)] = v, in place
SetItem(arr, iy, iz, v) ==
    [arr EXCEPT !.data =
        IF v = CZero
        THEN Restrict(arr.data, DOMAIN arr.data \ {<<iy, iz>>})
        ELSE (<<iy, iz>> :> v) @@ arr.data]

----------------------------------------------------------------------------
(* The classes as the import of the module leaves them.                    *)

Solvers == {"A", "B"}

\* the exceptions the code can raise, by their messages
NoError == ""
ErrNx == "AttributeError: nx must be 1: "
ErrNy == "AttributeError: ny must have a sensible value between 1 an 4096"
ErrNz == "AttributeError: nz must have a sensible value between 1 and 4096"
ErrZeroDivision == "ZeroDivisionError: float division by zero"
ErrIndex == "IndexError: index is out of bounds"

MaxCount == 4096

\* ids of the objects the class statements build
ClassList == 0
ClassPlane == 0
ClassArray == 0

\* CueBeamSolver.elements
ClassElements ==
    << TxElement(0, 0, -150, 1, 0), TxElement(0, 0, -100, 1, 0),
       TxElement(0, 0, -50, 1, 0),  TxElement(0, 0, 0, 1, 0),
       TxElement(0, 0, 50, 1, 0),   TxElement(0, 0, 100, 1, 0),
       TxElement(0, 0, 150, 1, 0) >>

\* the class attributes of CueBeamSolver: wavenumber, and the ids of the
\* shared list and the shared plane
SolverClass ==
    [wavenumber |-> 1000, elements |-> ClassList, rxPlane |-> ClassPlane]

\* the class attributes of RxPlane an instance can fall back to (x0 .. dz
\* are always shadowed: __init__ assigns them before anything can fail)
RxPlaneClass ==
    [nx |-> 1, ny |-> 240, nz |-> 160, pressurefield |-> ClassArray]

\* the arguments of RxPlane(): the defaults of __init__
DefaultArgs ==
    [x0 |-> -50, y0 |-> -50, z0 |-> 0, dx |-> 1, dy |-> 1, dz |-> 1,
     nx |-> 1, ny |-> 10, nz |-> 10]

\* self.<name> on an RxPlane: the instance's attribute, else the class's
PlaneAttr(self, name) ==
    IF name \in DOMAIN self THEN self[name] ELSE RxPlaneClass[name]

\* self.<name> on a CueBeamSolver
GetAttr(sv, s, name) ==
    IF name \in DOMAIN sv[s] THEN sv[s][name] ELSE SolverClass[name]

----------------------------------------------------------------------------
(* RxPlane.                                                                *)

\* clear_pressurefield with the two counts exchanged
ClearPressurefieldTransposed(self, arrs) ==
    LET id == FreshId(arrs)
    IN  [self   |-> ("pressurefield" :> id) @@ self,
         arrays |-> (id :> Zeros(PlaneAttr(self, "nz"), PlaneAttr(self, "ny")))
                    @@ arrs]

\* clear_pressurefield: binds self.pressurefield to a new array of zeros
ClearPressurefieldCall(self, arrs) ==
    LET id == FreshId(arrs)
    IN  [self   |-> ("pressurefield" :> id) @@ self,
         arrays |-> (id :> Zeros(PlaneAttr(self, "ny"), PlaneAttr(self, "nz")))
                    @@ arrs]

\* __init__ with the upper limit of ny and nz off by one (>= for >)
RxPlaneInitOffByOne(a, arrs) ==
    LET s0 == [x0 |-> a.x0, y0 |-> a.y0, z0 |-> a.z0,
               dx |-> a.dx, dy |-> a.dy, dz |-> a.dz]
        s1 == ("ny" :> a.ny) @@ s0
        s2 == ("nz" :> a.nz) @@ s1
        c  == ClearPressurefieldCall(s2, arrs)
    IN  IF a.nx # 1
        THEN [raised |-> ErrNx, self |-> s0, arrays |-> arrs]
        ELSE IF (a.ny >= MaxCount) \/ (a.ny < 1)
        THEN [raised |-> ErrNy, self |-> s0, arrays |-> arrs]
        ELSE IF (a.nz >= MaxCount) \/ (a.nz < 1)
        THEN [raised |-> ErrNz, self |-> s1, arrays |-> arrs]
        ELSE [raised |-> NoError, self |-> c.self, arrays |-> c.arrays]

\* __init__ with nz checked only after clear_pressurefield has been called
RxPlaneInitLateCheck(a, arrs) ==
    LET s0 == [x0 |-> a.x0, y0 |-> a.y0, z0 |-> a.z0,
               dx |-> a.dx, dy |-> a.dy, dz |-> a.dz]
        s1 == ("ny" :> a.ny) @@ s0
        s2 == ("nz" :> a.nz) @@ s1
        c  == ClearPressurefieldCall(s2, arrs)
    IN  IF a.nx # 1
        THEN [raised |-> ErrNx, self |-> s0, arrays |-> arrs]
        ELSE IF (a.ny > MaxCount) \/ (a.ny < 1)
        THEN [raised |-> ErrNy, self |-> s0, arrays |-> arrs]
        ELSE IF (a.nz > MaxCount) \/ (a.nz < 1)
        THEN [raised |-> ErrNz, self |-> c.self, arrays |-> c.arrays]
        ELSE [raised |-> NoError, self |-> c.self, arrays |-> c.arrays]

\* __init__: the exception raised (or none), self as the call leaves it,
\* and the heap of arrays
RxPlaneInit(a, arrs) ==
    LET s0 == [x0 |-> a.x0, y0 |-> a.y0, z0 |-> a.z0,
               dx |-> a.dx, dy |-> a.dy, dz |-> a.dz]
        s1 == ("ny" :> a.ny) @@ s0
        s2 == ("nz" :> a.nz) @@ s1
        c  == ClearPressurefieldCall(s2, arrs)
    IN  IF a.nx # 1
        THEN [raised |-> ErrNx, self |-> s0, arrays |-> arrs]
        ELSE IF (a.ny > MaxCount) \/ (a.ny < 1)
        THEN [raised |-> ErrNy, self |-> s0, arrays |-> arrs]
        ELSE IF (a.nz > MaxCount) \/ (a.nz < 1)
        THEN [raised |-> ErrNz, self |-> s1, arrays |-> arrs]
        ELSE [raised |-> NoError, self |-> c.self, arrays |-> c.arrays]

----------------------------------------------------------------------------
(* beamsim.                                                                *)

\* ddx * ddx + ddy * ddy + ddz * ddz.  distance is its square root, which
\* the model does not take: the square determines it, and distance is 0.0
\* exactly when the square is
DistanceSq(ddx, ddy, ddz) == ddx * ddx + ddy * ddy + ddz * ddz

\* fn(kphase) * kamplitude, for fn cos or sin, with
\*   kphase     = - wavenumber * distance + phase
\*   kamplitude = amplitude / (2 * 3.14159 * distance)
Contribution(fn, k, d2, e) ==
    [fn |-> fn, wavenumber |-> k, d2 |-> d2,
     phase |-> e.phase, amplitude |-> e.amplitude]

\* pressure += c
Accumulate(pressure, c) == pressure (+) SetToBag({c})

\* the loop over the transmitters for one sample point, from element itx:
\* the exception raised (or none) and the two sums
RECURSIVE TxLoop(_, _, _, _, _, _, _, _)
TxLoop(elems, itx, k, px, py, pz, re, im) ==
    IF itx > Len(elems)
    THEN [raised |-> NoError, re |-> re, im |-> im]
    ELSE LET e  == elems[itx]
             d2 == DistanceSq(px - e.x, py - e.y, pz - e.z)
         IN  IF d2 = 0
             THEN [raised |-> ErrZeroDivision, re |-> re, im |-> im]
             ELSE TxLoop(elems, itx + 1, k, px, py, pz,
                         Accumulate(re, Contribution("cos", k, d2, e)),
                         Accumulate(im, Contribution("sin", k, d2, e)))

\* the body of the two loops for the sample (iy, iz), ix being 0
Pixel(self, elems, k, iy, iz) ==
    TxLoop(elems, 1, k,
           self.x0 + 0 * self.dx,
           self.y0 + iy * self.dy,
           self.z0 + iz * self.dz,
           EmptyBag, EmptyBag)

\* for iy in range(ny): ..., for one iz, from sample iy on.  st is the
\* exception raised (or none), the array, and the cells written, in order
RECURSIVE IyLoop(_, _, _, _, _, _)
IyLoop(self, elems, k, iz, iy, st) ==
    LET c == Pixel(self, elems, k, iy, iz)
    IN  IF iy >= PlaneAttr(self, "ny")
        THEN st
        ELSE IF c.raised # NoError
        THEN [st EXCEPT !.raised = c.raised]
        ELSE IF ~InBounds(st.array, iy, iz)
        THEN [st EXCEPT !.raised = ErrIndex]
        ELSE IyLoop(self, elems, k, iz, iy + 1,
                    [raised |-> NoError,
                     array  |-> SetItem(st.array, iy, iz, Complex(c.re, c.im)),
                     writes |-> Append(st.writes, <<iy, iz>>)])

\* for iz in range(nz): ..., from iz on
RECURSIVE IzLoop(_, _, _, _, _)
IzLoop(self, elems, k, iz, st) ==
    LET row == IyLoop(self, elems, k, iz, 0, st)
    IN  IF iz >= PlaneAttr(self, "nz")
        THEN st
        ELSE IF row.raised # NoError
        THEN row
        ELSE IzLoop(self, elems, k, iz + 1, row)

\* beamsim, on the plane self with its array arr
BeamsimCall(self, elems, k, arr) ==
    IzLoop(self, elems, k, 0,
           [raised |-> NoError, array |-> arr, writes |-> << >>])

----------------------------------------------------------------------------
(* The state.                                                              *)

\* what is still referred to
LivePlanes(sv) ==
    {ClassPlane} \cup {sv[s].rxPlane : s \in {t \in Solvers : "rxPlane" \in DOMAIN sv[t]}}

LiveLists(sv) ==
    {ClassList} \cup {sv[s].elements : s \in {t \in Solvers : "elements" \in DOMAIN sv[t]}}

LiveArrays(pl, rd) ==
    {ClassArray} \cup {pl[p].pressurefield : p \in DOMAIN pl} \cup rd

\* the record of an operation that has ended: its name, the solver, the
\* exception it raised (or none), the counts a constructor was given, the
\* arrays it allocated, the number of cells that were not zero when a
\* solve began, and the cells the solve stored, in order
Ended(op, who, raised, args, allocs, prior, writes) ==
    [op |-> op, who |-> who, raised |-> raised, args |-> args,
     allocs |-> allocs, prior |-> prior, writes |-> writes]

Imported ==
    [op |-> "import", who |-> "", raised |-> NoError, args |-> << >>,
     allocs |-> 2, prior |-> 0, writes |-> << >>]

\* after the import: the class attributes are built, rxPlane by RxPlane()
InitPlane == RxPlaneInit(DefaultArgs, ClassArray :> Zeros(RxPlaneClass.ny, RxPlaneClass.nz))

Init ==
    /\ lists = (ClassList :> ClassElements)
    /\ planes = (ClassPlane :> InitPlane.self)
    /\ arrays = InitPlane.arrays
    /\ solvers = [s \in Solvers |-> << >>]
    /\ reader = {}
    /\ last = Imported
    /\ nops = 0

----------------------------------------------------------------------------
(* The operations.                                                         *)

\* s.rxPlane = RxPlane(x0, y0, z0, dx, dy, dz, nx, ny, nz): when __init__
\* raises, the assignment does not happen and the object is dropped
NewRxPlane(s, a) ==
    LET r   == RxPlaneInit(a, arrays)
        pid == FreshId(planes)
        sv  == [solvers EXCEPT ![s] = ("rxPlane" :> pid) @@ @]
        pl  == Restrict((pid :> r.self) @@ planes, LivePlanes(sv))
    IN  /\ last' = Ended("RxPlane", s, r.raised, <<a.nx, a.ny, a.nz>>,
                       Cardinality(DOMAIN r.arrays \ DOMAIN arrays), 0, << >>)
        /\ IF r.raised # NoError
           THEN UNCHANGED <<planes, arrays, solvers>>
           ELSE /\ solvers' = sv
                /\ planes' = pl
                /\ arrays' = Restrict(r.arrays, LiveArrays(pl, reader))
        /\ UNCHANGED <<lists, reader>>

\* s.rxPlane.clear_pressurefield()
ClearPressurefield(s) ==
    LET p  == GetAttr(solvers, s, "rxPlane")
        r  == ClearPressurefieldCall(planes[p], arrays)
        pl == [planes EXCEPT ![p] = r.self]
    IN  /\ planes' = pl
        /\ arrays' = Restrict(r.arrays, LiveArrays(pl, reader))
        /\ last' = Ended("clear_pressurefield", s, NoError, << >>,
                       Cardinality(DOMAIN r.arrays \ DOMAIN arrays), 0, << >>)
        /\ UNCHANGED <<lists, solvers, reader>>

\* s.beamsim()
Beamsim(s) ==
    LET self == planes[GetAttr(solvers, s, "rxPlane")]
        a    == PlaneAttr(self, "pressurefield")
        r    == BeamsimCall(self, lists[GetAttr(solvers, s, "elements")],
                            GetAttr(solvers, s, "wavenumber"), arrays[a])
    IN  /\ arrays' = [arrays EXCEPT ![a] = r.array]
        /\ last' = Ended("beamsim", s, r.raised, << >>, 0,
                       Cardinality(DOMAIN arrays[a].data), r.writes)
        /\ UNCHANGED <<lists, planes, solvers, reader>>

\* s.elements = [e1, ..]: a new list, an attribute of the instance
SetElements(s, es) ==
    LET lid == FreshId(lists)
        sv  == [solvers EXCEPT ![s] = ("elements" :> lid) @@ @]
    IN  /\ solvers' = sv
        /\ lists' = Restrict((lid :> es) @@ lists, LiveLists(sv))
        /\ last' = Ended("elements=", s, NoError, << >>, 0, 0, << >>)
        /\ UNCHANGED <<planes, arrays, reader>>

\* s.elements.append(e): the list s.elements resolves to, in place
AppendElement(s, e) ==
    LET l == GetAttr(solvers, s, "elements")
    IN  /\ lists' = [lists EXCEPT ![l] = Append(@, e)]
        /\ last' = Ended("elements.append", s, NoError, << >>, 0, 0, << >>)
        /\ UNCHANGED <<planes, arrays, solvers, reader>>

\* s.wavenumber = k: an attribute of the instance
SetWavenumber(s, k) ==
    /\ solvers' = [solvers EXCEPT ![s] = ("wavenumber" :> k) @@ @]
    /\ last' = Ended("wavenumber=", s, NoError, << >>, 0, 0, << >>)
    /\ UNCHANGED <<lists, planes, arrays, reader>>

\* a renderer reads s.rxPlane.pressurefield and keeps the array (do_plot
\* hands it to numpy.real and imshow)
ReadPressurefield(s) ==
    /\ reader' = {PlaneAttr(planes[GetAttr(solvers, s, "rxPlane")], "pressurefield")}
    /\ last' = Ended("pressurefield", s, NoError, << >>, 0, 0, << >>)
    /\ UNCHANGED <<lists, planes, arrays, solvers>>

----------------------------------------------------------------------------
(* The inputs.                                                             *)

\* transmitters: with x0 = 0 the first is at the sample (0, 0) and the
\* second at the sample (1, 0); with x0 = -1 neither is at a sample
TxChoices == {TxElement(0, 0, 0, 2, 1), TxElement(0, 1, 0, 1, 0)}

RECURSIVE SeqsUpTo(_, _)
SeqsUpTo(S, n) ==
    IF n = 0 THEN {<< >>}
    ELSE LET shorter == SeqsUpTo(S, n - 1)
         IN  shorter \cup {Append(q, e) : q \in shorter, e \in S}

Wavenumbers == {0}

PlaneArgs(x0s, nxs, nys, nzs) ==
    [x0 : x0s, y0 : {0}, z0 : {0}, dx : {1}, dy : {1}, dz : {1},
     nx : nxs, ny : nys, nz : nzs]

SmallArgs == PlaneArgs({-1, 0}, {1}, 0..MaxDim, 0..MaxDim)

GridArgs == PlaneArgs({0}, {1}, 0..MaxDim, 0..MaxDim)

BoundaryCounts == {0, 1, MaxCount, MaxCount + 1}

BoundaryArgs == PlaneArgs({0}, {0, 1, 2}, BoundaryCounts, BoundaryCounts)

----------------------------------------------------------------------------
(* Spec: any MaxOps operations on two default-constructed solvers, from    *)
(* the import on.                                                          *)

Budget == nops < MaxOps /\ nops' = nops + 1

Next ==
    \/ \E s \in Solvers, a \in GridArgs : Budget /\ NewRxPlane(s, a)
    \/ \E s \in Solvers : Budget /\ ClearPressurefield(s)
    \/ \E s \in Solvers : Budget /\ Beamsim(s)
    \/ \E s \in Solvers, es \in SeqsUpTo(TxChoices, 1) : Budget /\ SetElements(s, es)
    \/ \E s \in Solvers, e \in TxChoices : Budget /\ AppendElement(s, e)
    \/ \E s \in Solvers, k \in Wavenumbers : Budget /\ SetWavenumber(s, k)
    \/ \E s \in Solvers : Budget /\ ReadPressurefield(s)

Spec == Init /\ [][Next]_vars

----------------------------------------------------------------------------
(* SpecSolve: solver A with a transmitter list and a grid of its own, as   *)
(* A.elements = es and A.rxPlane = RxPlane(..) leave it after the import,  *)
(* for every list and every valid grid of the inputs; then constructions,  *)
(* solves, resets, changes of the wavenumber and A.elements = [] in any    *)
(* number and order.                                                       *)

ValidArgs == {a \in SmallArgs : RxPlaneInit(a, << >>).raised = NoError}

InitSolve ==
    \E es \in SeqsUpTo(TxChoices, MaxTx), a \in ValidArgs :
        LET r == RxPlaneInit(a, InitPlane.arrays)
        IN  /\ lists = (ClassList :> ClassElements) @@ (1 :> es)
            /\ planes = (ClassPlane :> InitPlane.self) @@ (1 :> r.self)
            /\ arrays = r.arrays
            /\ solvers = [s \in Solvers |->
                            IF s = "A" THEN [elements |-> 1, rxPlane |-> 1]
                            ELSE << >>]
            /\ reader = {}
            /\ last = Imported
            /\ nops = 0

NextSolve ==
    \/ \E a \in GridArgs : NewRxPlane("A", a) /\ UNCHANGED nops
    \/ Beamsim("A") /\ UNCHANGED nops
    \/ ClearPressurefield("A") /\ UNCHANGED nops
    \/ \E k \in Wavenumbers : SetWavenumber("A", k) /\ UNCHANGED nops
    \/ SetElements("A", << >>) /\ UNCHANGED nops

SpecSolve == InitSolve /\ [][NextSolve]_vars

----------------------------------------------------------------------------
(* SpecCtor: constructions around the limits of the counts.                *)

NextCtor ==
    \/ \E a \in BoundaryArgs : NewRxPlane("A", a) /\ UNCHANGED nops
    \/ ClearPressurefield("A") /\ UNCHANGED nops

SpecCtor == Init /\ [][NextCtor]_vars

----------------------------------------------------------------------------
(* What the properties speak of.                                           *)

\* s.rxPlane, its array and s.elements, as s resolves them
SolverPlane(s) == planes[GetAttr(solvers, s, "rxPlane")]
SolverArrayId(s) == PlaneAttr(SolverPlane(s), "pressurefield")
SolverArray(s) == arrays[SolverArrayId(s)]
SolverElements(s) == lists[GetAttr(solvers, s, "elements")]

\* the cells (iy, iz) of a plane
Cells(self) == (0..(self.ny - 1)) \X (0..(self.nz - 1))

\* every cell of the array is complex zero (data holds the others)
AllZero(arr) == DOMAIN arr.data = {}

\* the value of the sample (iy, iz) for the inputs s has now
Field(s, es, iy, iz) ==
    LET c == Pixel(SolverPlane(s), es, GetAttr(solvers, s, "wavenumber"), iy, iz)
    IN  Complex(c.re, c.im)

----------------------------------------------------------------------------
(* C1: RxPlane(.., nx, ny, nz) succeeds exactly when nx = 1 and both ny    *)
(* and nz are in 1..4096; otherwise it raises one of the three             *)
(* configuration errors.  On success the caller's grid has these counts.   *)
C1_ConstructIff ==
    last.op = "RxPlane" =>
        LET nx == last.args[1]
            ny == last.args[2]
            nz == last.args[3]
            ok == nx = 1 /\ 1 <= ny /\ ny <= 4096 /\ 1 <= nz /\ nz <= 4096
        IN  /\ (last.raised = NoError) <=> ok
            /\ ~ok => last.raised \in {ErrNx, ErrNy, ErrNz}
            /\ ok => /\ SolverPlane(last.who).ny = ny
                     /\ SolverPlane(last.who).nz = nz

\* a construction with both counts at the upper limit has succeeded
C1_Witness ==
    /\ last.op = "RxPlane"
    /\ last.args = <<1, 4096, 4096>>
    /\ last.raised = NoError

\* the error a failed construction must raise: for the first of nx, ny, nz
\* that is invalid
FirstInvalid(args) ==
    IF args[1] # 1 THEN ErrNx
    ELSE IF ~(1 <= args[2] /\ args[2] <= 4096) THEN ErrNy
    ELSE ErrNz

(* C2: a construction that fails raises the error of the first invalid     *)
(* parameter in the order nx, ny, nz, allocates no array, and leaves the   *)
(* caller with no new grid: the heaps and the solvers' attributes are as   *)
(* before.                                                                 *)
C2_FailedConstruct ==
    [][ (last'.op = "RxPlane" /\ last'.raised # NoError) =>
            /\ last'.raised = FirstInvalid(last'.args)
            /\ last'.allocs = 0
            /\ arrays' = arrays
            /\ planes' = planes
            /\ solvers' = solvers ]_vars

\* a construction has failed on nz, after ny was accepted and assigned
C2_Witness ==
    /\ last.op = "RxPlane"
    /\ last.args = <<1, 1, 4097>>
    /\ last.raised = ErrNz

\* the buffer of the solver that has just solved holds, in every cell, the
\* value its present inputs give
Solved ==
    \A c \in Cells(SolverPlane(last.who)) :
        GetItem(SolverArray(last.who), c[1], c[2])
            = Field(last.who, SolverElements(last.who), c[1], c[2])

(* C3: after a solve that completed, every cell holds the value the        *)
(* current wavenumber, transmitters and geometry determine, whatever the   *)
(* buffer held before; and a solve that follows a solve, the inputs        *)
(* unchanged, leaves the buffer as the first left it.                      *)
C3_Idempotent ==
    [][ last'.op = "beamsim" =>
            /\ (last'.raised = NoError) => Solved'
            /\ (last.op = "beamsim") => (arrays' = arrays /\ last'.raised = last.raised) ]_vars

\* a solve has completed on a buffer that held the values of another
\* wavenumber
C3_Witness ==
    /\ last.op = "beamsim"
    /\ last.raised = NoError
    /\ last.prior > 0
    /\ GetAttr(solvers, last.who, "wavenumber") = 0
    /\ ~AllZero(SolverArray(last.who))

(* C9: every grid's buffer has exactly ny rows and nz columns, after any   *)
(* construction, reset and solve; it is all zero right after the           *)
(* construction and after a reset, and after a solve with no transmitter.  *)
C9_Shape ==
    /\ \A p \in DOMAIN planes :
          LET arr == arrays[planes[p].pressurefield]
          IN  /\ arr.shape = <<planes[p].ny, planes[p].nz>>
              /\ DOMAIN arr.data \subseteq Cells(planes[p])
    /\ last.op = "import" => \A a \in DOMAIN arrays : AllZero(arrays[a])
    /\ (last.op = "RxPlane" /\ last.raised = NoError) => AllZero(SolverArray(last.who))
    /\ last.op = "clear_pressurefield" => AllZero(SolverArray(last.who))
    /\ (last.op = "beamsim" /\ SolverElements(last.who) = << >>) =>
          /\ last.raised = NoError
          /\ Len(last.writes) = Cardinality(Cells(SolverPlane(last.who)))
          /\ AllZero(SolverArray(last.who))

\* a solve with no transmitter has ended on a grid of two rows and one
\* column whose buffer was not zero before
C9_Witness ==
    /\ last.op = "beamsim"
    /\ SolverElements(last.who) = << >>
    /\ last.prior > 0
    /\ SolverArray(last.who).shape = <<2, 1>>

----------------------------------------------------------------------------
(* The statements the code departs from.                                   *)

\* the solve that has just ended stored every cell of its grid
WroteAll ==
    \A c \in Cells(SolverPlane(last.who)) :
        \E i \in DOMAIN last.writes : last.writes[i] = c

(* C4: a solve never raises: whatever the inputs, it ends without an       *)
(* exception, having stored every cell (a sample at a transmitter          *)
(* included).                                                              *)
C4_NeverRaises ==
    last.op = "beamsim" => (last.raised = NoError /\ WroteAll)

(* C5: a solve that has ended, normally or by an error, has overwritten    *)
(* every cell or has modified none.                                        *)
C5_AllOrNothing ==
    [][ last'.op = "beamsim" => (WroteAll' \/ arrays' = arrays) ]_vars

(* C6: a reset zeroes the grid's buffer in place: afterwards the buffer    *)
(* is all zero with the shape (ny, nz), it is the array it was before,     *)
(* and an array a reader got from the grid before the reset shows zeros.   *)
C6_ResetInPlace ==
    [][ last'.op = "clear_pressurefield" =>
            LET p == GetAttr(solvers, last'.who, "rxPlane")
                before == planes[p].pressurefield
                after  == planes'[p].pressurefield
            IN  /\ AllZero(arrays'[after])
                /\ arrays'[after].shape = <<planes'[p].ny, planes'[p].nz>>
                /\ after = before
                /\ before \in reader => AllZero(arrays'[before]) ]_vars

\* what solver s reads: its transmitters and the contents of its buffer
View(s) == <<SolverElements(s), SolverArray(s)>>

(* C7: two solvers share nothing: a solve, a reset or an append on one     *)
(* leaves the other's transmitter list and buffer as they were.            *)
C7_NoAliasing ==
    [][ \A s \in Solvers :
            (last'.who = s /\ last'.op \in {"beamsim", "clear_pressurefield", "elements.append"})
                => \A t \in Solvers \ {s} : View(t)' = View(t) ]_vars

(* C8: in one solve every cell is stored exactly once, in the order of     *)
(* the loops (iz outside, iy inside), with the value its sample has for    *)
(* the inputs, which depends on no other cell.                             *)
C8_EachCellOnce ==
    last.op = "beamsim" =>
        LET self == SolverPlane(last.who)
        IN  /\ \A c \in Cells(self) :
                  /\ Cardinality({i \in DOMAIN last.writes : last.writes[i] = c}) = 1
                  /\ GetItem(SolverArray(last.who), c[1], c[2])
                        = Field(last.who, SolverElements(last.who), c[1], c[2])
            /\ \A i \in DOMAIN last.writes :
                  last.writes[i] = <<(i - 1) % self.ny, (i - 1) \div self.ny>>

\* the buffer a solve of s with the transmitters es leaves in a zeroed grid
Alone(s, es) ==
    BeamsimCall(SolverPlane(s), es, GetAttr(solvers, s, "wavenumber"),
                Zeros(SolverPlane(s).ny, SolverPlane(s).nz)).array

(* C10: the buffer a solve with the transmitters [t1, t2] leaves in a      *)
(* zeroed grid is, cell by cell, the sum of the buffers the solves with    *)
(* [t1] and with [t2] leave, and is the buffer the solve with [t2, t1]     *)
(* leaves.                                                                 *)
C10_Superposition ==
    (last.op = "beamsim" /\ last.prior = 0 /\ Len(SolverElements(last.who)) = 2) =>
        LET es == SolverElements(last.who)
            b1 == Alone(last.who, <<es[1]>>)
            b2 == Alone(last.who, <<es[2]>>)
        IN  /\ \A c \in Cells(SolverPlane(last.who)) :
                  GetItem(SolverArray(last.who), c[1], c[2])
                      = CAdd(GetItem(b1, c[1], c[2]), GetItem(b2, c[1], c[2]))
            /\ SolverArray(last.who) = Alone(last.who, <<es[2], es[1]>>)

====
